---- MODULE Spec2Model ----
(***************************************************************************)
(* journalr: a password-protected journal.  The model covers the encrypted *)
(* persistence layer (Diary::read_jrnl / Diary::write_to and the DiaryError*)
(* taxonomy), the Date key and its textual encoding, and the modal control *)
(* loop of App (GetFile, Password, Edit, SetDate, Delete, AskToSave, Exit).*)
(***************************************************************************)
EXTENDS Integers, Sequences, FiniteSets, TLC

VARIABLES
    pc,         \* position of the process: TryFrom, Run, Loop, CreateFile, ...
    args,       \* the parsed command line (Arguments)
    mode,       \* App.mode
    path,       \* App.path
    date,       \* App.date
    entries,    \* App.entries: Date -> TextArea (its lines)
    saved,      \* App.saved
    password,   \* App.password
    today,      \* the local wall-clock date Date::today() returns
    fs,         \* the file system: path -> file
    ph,         \* the placeholder / hint text the current prompt shows
    ta,         \* the single-line input of get_password
    filename,   \* the file name open_file_rw / new_file is working on
    form,       \* the PasswordForm of new_password
    uis,        \* the DateSelection of set_date_ui
    opened,     \* history: a load succeeded or a creation was accepted
    step,       \* history: the last step taken and its result
    st,         \* DiaryStore harness: last call, its arguments and result
    term,       \* the terminal: raw mode enabled, alternate screen entered
    doc         \* history: the entries as the last successful load or save
                \* left them

vars == <<pc, args, mode, path, date, entries, saved, password, today, fs,
          ph, ta, filename, form, uis, opened, step, st, term, doc>>

appVars == <<pc, args, mode, path, date, entries, saved, password, today,
             ph, ta, filename, form, uis, opened, step, term, doc>>

-----------------------------------------------------------------------------
(* Characters and strings.  A Rust String is a sequence of one-character   *)
(* strings.                                                                *)

NL == "\n"

DigitChars == <<"0", "1", "2", "3", "4", "5", "6", "7", "8", "9">>

IsDigit(c) == \E i \in 1..10 : DigitChars[i] = c

DigitVal(c) == (CHOOSE i \in 1..10 : DigitChars[i] = c) - 1

IsSpace(c) == c \in {" ", NL}

-----------------------------------------------------------------------------
(* Date (date.rs): a chrono NaiveDate, written and read as %d-%m-%Y.       *)

MkDate(d, m, y) == [d |-> d, m |-> m, y |-> y]

MIN_YEAR == 0 - 262143
MAX_YEAR == 262142

IsLeap(y) == (y % 4 = 0 /\ y % 100 # 0) \/ y % 400 = 0

DaysInMonth(y, m) ==
    IF m = 2 THEN (IF IsLeap(y) THEN 29 ELSE 28)
    ELSE IF m \in {4, 6, 9, 11} THEN 30 ELSE 31

ValidDate(d, m, y) ==
    /\ y >= MIN_YEAR /\ y <= MAX_YEAR
    /\ m >= 1 /\ m <= 12
    /\ d >= 1 /\ d <= DaysInMonth(y, m)

RECURSIVE Digits(_)
Digits(n) == IF n < 10 THEN <<DigitChars[n + 1]>>
             ELSE Digits(n \div 10) \o <<DigitChars[(n % 10) + 1]>>

RECURSIVE ZeroPad(_, _)
ZeroPad(s, w) == IF Len(s) >= w THEN s ELSE ZeroPad(<<"0">> \o s, w)

\* a %Y that writes no '+' before a year above 9999
FormatYearUnsigned(y) ==
    IF y >= 0 THEN ZeroPad(Digits(y), 4)
    ELSE <<"-">> \o ZeroPad(Digits(0 - y), 4)

\* chrono %Y: four digits for 0..9999, otherwise a sign and at least four digits
FormatYear(y) ==
    IF y >= 0 /\ y <= 9999 THEN ZeroPad(Digits(y), 4)
    ELSE IF y < 0 THEN <<"-">> \o ZeroPad(Digits(0 - y), 4)
    ELSE <<"+">> \o ZeroPad(Digits(y), 4)

\* a Display that writes the month before the day
FormatDateMonthFirst(dt) ==
    ZeroPad(Digits(dt.m), 2) \o <<"-">> \o ZeroPad(Digits(dt.d), 2)
        \o <<"-">> \o FormatYear(dt.y)

\* Display for Date: self.inner.format("%d-%m-%Y")
FormatDate(dt) ==
    ZeroPad(Digits(dt.d), 2) \o <<"-">> \o ZeroPad(Digits(dt.m), 2)
        \o <<"-">> \o FormatYear(dt.y)

RECURSIVE TrimStart(_)
TrimStart(s) == IF s # <<>> /\ IsSpace(Head(s)) THEN TrimStart(Tail(s)) ELSE s

RECURSIVE CountDigits(_, _)
CountDigits(s, max) ==
    IF max = 0 \/ s = <<>> \/ ~IsDigit(Head(s)) THEN 0
    ELSE 1 + CountDigits(Tail(s), max - 1)

RECURSIVE DigitsValue(_, _)
DigitsValue(s, n) ==
    IF n = 0 THEN 0
    ELSE DigitsValue(SubSeq(s, 1, n - 1), n - 1) * 10 + DigitVal(s[n])

ScanFail(s) == [ok |-> FALSE, v |-> 0, rest |-> s]

\* the first n characters of s read as a number, and what follows them
Scanned(s, n) ==
    IF n = 0 THEN ScanFail(s)
    ELSE [ok |-> TRUE, v |-> DigitsValue(s, n), rest |-> SubSeq(s, n + 1, Len(s))]

\* chrono scan::number(s, 1, max): at least one and at most max digits
ScanNumber(s, max) == Scanned(s, CountDigits(s, max))

Negated(r) == [r EXCEPT !.v = 0 - r.v]

\* a numeric item after its leading white space: a signed item takes any
\* number of digits after an explicit sign, else at most `width` digits
ParseTrimmed(s, width, signed) ==
    IF signed /\ s # <<>> /\ Head(s) = "-" THEN Negated(ScanNumber(Tail(s), Len(s)))
    ELSE IF signed /\ s # <<>> /\ Head(s) = "+" THEN ScanNumber(Tail(s), Len(s))
    ELSE ScanNumber(s, width)

\* chrono's numeric item: leading white space is skipped
ParseNumeric(s, width, signed) == ParseTrimmed(TrimStart(s), width, signed)

\* a literal '-' of the format string
ParseDash(s) ==
    IF s # <<>> /\ Head(s) = "-" THEN [ok |-> TRUE, rest |-> Tail(s)]
    ELSE [ok |-> FALSE, rest |-> s]

ParseErr == [ok |-> FALSE, date |-> MkDate(0, 0, 0)]

\* Parsed::to_naive_date once the whole input is consumed
ParseFinish(d, m, y) ==
    IF ~y.ok \/ y.rest # <<>> \/ ~ValidDate(d, m, y.v) THEN ParseErr
    ELSE [ok |-> TRUE, date |-> MkDate(d, m, y.v)]

ParseYear(d, m, l2) ==
    IF ~l2.ok THEN ParseErr ELSE ParseFinish(d, m, ParseNumeric(l2.rest, 4, TRUE))

ParseDash2(d, m) ==
    IF ~m.ok THEN ParseErr ELSE ParseYear(d, m.v, ParseDash(m.rest))

ParseMonth(d, l1) ==
    IF ~l1.ok THEN ParseErr ELSE ParseDash2(d, ParseNumeric(l1.rest, 2, FALSE))

ParseDash1(d) ==
    IF ~d.ok THEN ParseErr ELSE ParseMonth(d.v, ParseDash(d.rest))

\* TryFrom<&str> for Date: NaiveDate::parse_from_str(value, "%d-%m-%Y")
ParseDate(s) == ParseDash1(ParseNumeric(s, 2, FALSE))

-----------------------------------------------------------------------------
(* TextArea <-> String (diary.rs).  A TextArea is the sequence of its      *)
(* lines, a line a sequence of characters other than NL.                   *)

EmptyTextArea == << <<>> >>

\* TextArea::from(iterator of lines): an empty iterator gives one empty line
TextAreaFrom(lines) == IF lines = <<>> THEN EmptyTextArea ELSE lines

RECURSIVE JoinLines(_)
\* v.lines().iter().flat_map(|k| [k, "\n"]).collect::<String>()
JoinLines(lines) ==
    IF lines = <<>> THEN <<>>
    ELSE Head(lines) \o <<NL>> \o JoinLines(Tail(lines))

RECURSIVE SplitFrom(_, _)
SplitFrom(s, cur) ==
    IF s = <<>> THEN <<cur>>
    ELSE IF Head(s) = NL THEN <<cur>> \o SplitFrom(Tail(s), <<>>)
    ELSE SplitFrom(Tail(s), Append(cur, Head(s)))

\* v.split('\n')
SplitLines(s) == SplitFrom(s, <<>>)

\* From<&HashMap<Date, TextArea>> for Diary
DiaryFromEntries(e) == [k \in DOMAIN e |-> JoinLines(e[k])]

\* From<Diary> for HashMap<Date, TextArea>
EntriesFromDiary(dy) == [k \in DOMAIN dy |-> TextAreaFrom(SplitLines(dy[k]))]

NoDiary == <<>>

-----------------------------------------------------------------------------
(* The payload: serde_json text of Diary { entries }.  A JSON object is    *)
(* kept as the set of its members <<key text, value text>>; "text" is a    *)
(* payload that is not JSON of the entries schema.                         *)

NoPayload == [kind |-> "none", members |-> {}]

\* serde_json::to_string(self): every Date key goes through Into<String>
ToJson(dy) ==
    [kind |-> "json", members |-> {<<FormatDate(k), dy[k]>> : k \in DOMAIN dy}]

JsonErr == [ok |-> FALSE, diary |-> NoDiary]

\* the map of the members once every key is parsed: ps is the set of
\* <<parsed key, value>>
DiaryOfParsed(ps) ==
    IF \E q \in ps : ~q[1].ok THEN JsonErr
    ELSE [ok |-> TRUE,
          diary |-> [k \in {q[1].date : q \in ps} |->
                        (CHOOSE q \in ps : q[1].date = k)[2]]]

\* serde_json::from_str(&string): every key goes through TryFrom<String>
FromJson(pl) ==
    IF pl.kind # "json" THEN JsonErr
    ELSE DiaryOfParsed({<<ParseDate(mb[1]), mb[2]>> : mb \in pl.members})

-----------------------------------------------------------------------------
(* Files.  kind: "absent" (no such file), "nodir" (the parent directory is *)
(* missing), "denied" (cannot be opened), "dir" (opens, cannot be read),   *)
(* "empty" (zero bytes), "truncated" (cut short), "badmagic" (not a cocoon *)
(* header), "huge" (declared length above the cap), "corrupt" (a container *)
(* whose ciphertext or tag was damaged), "cocoon" (a container written by  *)
(* Cocoon::dump under `key` holding `data`).                               *)

MkFile(kind, key, data) == [kind |-> kind, key |-> key, data |-> data]

PlainFile(kind) == MkFile(kind, <<>>, NoPayload)

IoOk == "Ok"

\* File::open(path)
FileOpen(f) ==
    IF f.kind \in {"absent", "nodir"} THEN "NotFound"
    ELSE IF f.kind = "denied" THEN "PermissionDenied"
    ELSE IoOk

\* File::create(path): creates or truncates
FileCreate(f) ==
    IF f.kind = "nodir" THEN "NotFound"
    ELSE IF f.kind \in {"denied", "dir"} THEN "PermissionDenied"
    ELSE IoOk

CocoonErr(tag, kind) == [ok |-> FALSE, tag |-> tag, kind |-> kind, data |-> NoPayload]

\* Cocoon::new(password).parse(&mut file)
CocoonParse(pw, f) ==
    IF f.kind = "dir" THEN CocoonErr("Io", "Other")
    ELSE IF f.kind \in {"empty", "truncated"} THEN CocoonErr("TooShort", "")
    ELSE IF f.kind = "badmagic" THEN CocoonErr("UnrecognizedFormat", "")
    ELSE IF f.kind = "huge" THEN CocoonErr("TooLarge", "")
    ELSE IF f.kind = "corrupt" \/ f.key # pw THEN CocoonErr("Cryptography", "")
    ELSE [ok |-> TRUE, tag |-> "", kind |-> "", data |-> f.data]

-----------------------------------------------------------------------------
(* DiaryError (diary.rs) and the three From conversions into it.           *)

DiaryError ==
    {"WrongPassword", "InvalidFormat", "OutOfRangeSize", "NotFound", "NotAccessible"}

\* a conversion that forgets the NotFound kind
FromIoErrorFlat(kind) == "NotAccessible"

\* From<io::Error> for DiaryError
FromIoError(kind) == IF kind = "NotFound" THEN "NotFound" ELSE "NotAccessible"

\* a conversion that reports a failed decryption as a format error
FromCocoonErrorNoCrypto(e) ==
    IF e.tag = "Io" THEN FromIoError(e.kind)
    ELSE IF e.tag \in {"UnrecognizedFormat", "TooShort", "Cryptography"}
    THEN "InvalidFormat"
    ELSE "OutOfRangeSize"

\* From<cocoon::Error> for DiaryError
FromCocoonError(e) ==
    IF e.tag = "Io" THEN FromIoError(e.kind)
    ELSE IF e.tag \in {"UnrecognizedFormat", "TooShort"} THEN "InvalidFormat"
    ELSE IF e.tag = "Cryptography" THEN "WrongPassword"
    ELSE "OutOfRangeSize"

\* From<serde_json::Error> for DiaryError
FromSerdeError == "InvalidFormat"

Ok(dy) == [ok |-> TRUE, err |-> "", diary |-> dy]
Err(e) == [ok |-> FALSE, err |-> e, diary |-> NoDiary]

\* diary.rs 72: Ok(serde_json::from_str(&string)?)
ReadParsed(j) == IF ~j.ok THEN Err(FromSerdeError) ELSE Ok(j.diary)

\* diary.rs 70-71: cocoon.parse(..)? and the payload it returns
ReadDecrypted(c) ==
    IF ~c.ok THEN Err(FromCocoonError(c)) ELSE ReadParsed(FromJson(c.data))

\* diary.rs 70: File::open(path)?
ReadOpened(io, f, pw) ==
    IF io # IoOk THEN Err(FromIoError(io)) ELSE ReadDecrypted(CocoonParse(pw, f))

\* Diary::read_jrnl(path, password) on the file f at path
read_jrnl(f, pw) == ReadOpened(FileOpen(f), f, pw)

\* diary.rs 76-80: cocoon.dump(.., &mut File::create(path)?)?: File::create
\* truncates before Cocoon::dump writes, and dump fails with an io::Error
\* when the device does (fault)
WriteCreated(io, dy, f, pw, fault) ==
    IF io # IoOk THEN [res |-> Err(FromIoError(io)), file |-> f]
    ELSE IF fault
    THEN [res |-> Err(FromCocoonError(CocoonErr("Io", "Other"))),
          file |-> PlainFile("truncated")]
    ELSE [res |-> Ok(NoDiary), file |-> MkFile("cocoon", pw, ToJson(dy))]

\* Diary::write_to(path, password) on the file f at path: the result and the
\* file left behind
write_to(dy, f, pw, fault) == WriteCreated(FileCreate(f), dy, f, pw, fault)

-----------------------------------------------------------------------------
(* DateSelection (ui.rs) and chrono's checked date arithmetic.             *)

Some(dt) == [ok |-> TRUE, date |-> dt]
None == [ok |-> FALSE, date |-> MkDate(0, 0, 0)]

\* NaiveDate::checked_add_days(Days::new(1))
CheckedAddDay(dt) ==
    IF dt.d < DaysInMonth(dt.y, dt.m) THEN Some(MkDate(dt.d + 1, dt.m, dt.y))
    ELSE IF dt.m < 12 THEN Some(MkDate(1, dt.m + 1, dt.y))
    ELSE IF dt.y < MAX_YEAR THEN Some(MkDate(1, 1, dt.y + 1))
    ELSE None

\* NaiveDate::checked_sub_days(Days::new(1))
CheckedSubDay(dt) ==
    IF dt.d > 1 THEN Some(MkDate(dt.d - 1, dt.m, dt.y))
    ELSE IF dt.m > 1 THEN Some(MkDate(DaysInMonth(dt.y, dt.m - 1), dt.m - 1, dt.y))
    ELSE IF dt.y > MIN_YEAR THEN Some(MkDate(31, 12, dt.y - 1))
    ELSE None

\* an add_months that does not look at the range of the calendar
UncheckedAddMonths(dt, n) ==
    LET total == dt.y * 12 + (dt.m - 1) + n
    IN  Some(MkDate(dt.d, (total % 12) + 1, total \div 12))

\* NaiveDate::checked_add_months / checked_sub_months (n < 0): the day is
\* clamped to the length of the month reached
CheckedAddMonths(dt, n) ==
    LET total == dt.y * 12 + (dt.m - 1) + n
        y == total \div 12
        m == (total % 12) + 1
    IN  IF y < MIN_YEAR \/ y > MAX_YEAR THEN None
        ELSE Some(MkDate(IF dt.d > DaysInMonth(y, m) THEN DaysInMonth(y, m) ELSE dt.d,
                         m, y))

\* .unwrap_or(*self.date)
UnwrapOr(r, dt) == IF r.ok THEN r.date ELSE dt

\* DateSelection::increment_selected
increment_selected(u) ==
    [u EXCEPT !.date =
        IF u.selection = "Date" THEN UnwrapOr(CheckedAddDay(u.date), u.date)
        ELSE IF u.selection = "Month" THEN UnwrapOr(CheckedAddMonths(u.date, 1), u.date)
        ELSE UnwrapOr(CheckedAddMonths(u.date, 12), u.date)]

\* DateSelection::decrement_selected
decrement_selected(u) ==
    [u EXCEPT !.date =
        IF u.selection = "Date" THEN UnwrapOr(CheckedSubDay(u.date), u.date)
        ELSE IF u.selection = "Month" THEN UnwrapOr(CheckedAddMonths(u.date, 0 - 1), u.date)
        ELSE UnwrapOr(CheckedAddMonths(u.date, 0 - 12), u.date)]

\* CurrentlySelected::next / prev
SelectionNext(sel) ==
    IF sel = "Date" THEN "Month" ELSE IF sel = "Month" THEN "Year" ELSE "Date"

SelectionPrev(sel) ==
    IF sel = "Date" THEN "Year" ELSE IF sel = "Month" THEN "Date" ELSE "Month"

select_next(u) == [u EXCEPT !.selection = SelectionNext(u.selection)]
select_prev(u) == [u EXCEPT !.selection = SelectionPrev(u.selection)]

-----------------------------------------------------------------------------
(* Inputs: the paths, credentials, dates and texts the model draws from.   *)

MaxTextLen == 1

PathA == "a.jrnl"
PathB == "b.jrnl"
Paths == {PathA, PathB}

NoPw == <<>>
PwP == <<"p">>
PwQ == <<"q">>
Passwords == {NoPw, PwP, PwQ}

D1 == MkDate(1, 1, 2024)
D2 == MkDate(2, 1, 2024)
D3 == MkDate(31, 12, 10000)

RECURSIVE TextsUpTo(_)
TextsUpTo(n) ==
    IF n = 0 THEN {<<>>}
    ELSE LET shorter == TextsUpTo(n - 1)
         IN  shorter \cup {Append(t, c) : t \in shorter, c \in {"a", NL}}

Texts == TextsUpTo(MaxTextLen)

DocsOver(dates) ==
    UNION {[ks -> Texts] : ks \in SUBSET dates}

\* the files a path can hold before the program first touches it
ForeignFiles ==
    {PlainFile(k) : k \in {"absent", "nodir", "denied", "dir", "empty",
                            "truncated", "badmagic", "huge"}}
    \cup {MkFile("corrupt", PwP, ToJson(<<>>)),
          MkFile("cocoon", PwP, ToJson([k \in {D2} |-> <<"a", NL>>])),
          MkFile("cocoon", PwP, [kind |-> "text", members |-> {}]),
          MkFile("cocoon", NoPw,
                 [kind |-> "json",
                  members |-> {<< <<"2", "0", "2", "4", "-", "0", "1", "-", "0", "1">>,
                                  <<"a">> >>}])}

\* no load and no save has succeeded yet
NoDoc == [held |-> FALSE, entries |-> <<>>]

\* a load or save has just succeeded and left the entries e
Held(e) == [held |-> TRUE, entries |-> e]

\* the terminal before run and after exit
Released == [raw |-> FALSE, alt |-> FALSE]

\* app.rs 430-431: enable_raw_mode()?; stderr().execute(EnterAlternateScreen)?
Acquire(t) == [raw |-> TRUE, alt |-> TRUE]

\* App::exit: disable_raw_mode()?; stderr().execute(LeaveAlternateScreen)?
exit(t) == [raw |-> FALSE, alt |-> FALSE]

\* a session object that leaves the terminal as it is when it goes
DropForgets(t) == t

\* Drop for App: let _ = self.exit()
Drop(t) == exit(t)

\* lib.rs 16: res.is_ok() || res.is_err_and(|e| !(e == WrongPassword))
Recognized(res) == res.ok \/ (~res.ok /\ ~(res.err = "WrongPassword"))

\* check_format(path) on the file f at path
check_format(f) == Recognized(read_jrnl(f, NoPw))

-----------------------------------------------------------------------------
(* SpecStore: the DiaryStore boundary on its own.  Any sequence of         *)
(* Diary::write_to and Diary::read_jrnl calls on PathA, any document, any  *)
(* credential, the file starting in any state.                             *)

NoCall ==
    [op |-> "none", pw |-> NoPw, res |-> Ok(NoDiary), file |-> "absent",
     recognized |-> FALSE]

NoWrite == [valid |-> FALSE, pw |-> NoPw]

AppIdle ==
    /\ pc = "Store"
    /\ args = [file |-> "", password |-> NoPw, hasFile |-> FALSE,
               hasPassword |-> FALSE, date |-> D1, hasDate |-> FALSE,
               text |-> <<>>]
    /\ mode = "GetFile"
    /\ path = ""
    /\ date = D1
    /\ entries = <<>>
    /\ saved = TRUE
    /\ password = NoPw
    /\ today = D1
    /\ ph = ""
    /\ ta = <<>>
    /\ filename = ""
    /\ form = [og |-> <<>>, retype |-> <<>>, mode |-> "Typing", matching |-> TRUE]
    /\ uis = [date |-> D1, selection |-> "Date"]
    /\ opened = FALSE
    /\ step = [name |-> "init", res |-> ""]
    /\ term = Released
    /\ doc = NoDoc

\* st.doc is the document the caller holds, st.last the last call (its
\* credential, its result, the kind of file it met) and st.wrote the last
\* write_to that succeeded, while the file it wrote is in place
InitStore ==
    /\ AppIdle
    /\ \E f \in ForeignFiles :
           fs = [p \in Paths |-> IF p = PathA THEN f ELSE PlainFile("absent")]
    /\ \E dy \in DocsOver({D1, D3}) :
           st = [doc |-> dy, last |-> NoCall, wrote |-> NoWrite]

\* a call of Diary::write_to(PathA, pw) on the document
StoreSave(pw, fault) ==
    LET w == write_to(st.doc, fs[PathA], pw, fault)
    IN  /\ fs' = [fs EXCEPT ![PathA] = w.file]
        /\ st' = [st EXCEPT
                    !.last = [op |-> "save", pw |-> pw, res |-> w.res,
                              file |-> fs[PathA].kind, recognized |-> FALSE],
                    !.wrote = IF w.res.ok THEN [valid |-> TRUE, pw |-> pw]
                              ELSE IF w.file # fs[PathA] THEN NoWrite
                              ELSE st.wrote]
        /\ UNCHANGED appVars

\* a call of Diary::read_jrnl(PathA, pw)
StoreLoad(pw) ==
    /\ st' = [st EXCEPT !.last = [op |-> "load", pw |-> pw,
                                  res |-> read_jrnl(fs[PathA], pw),
                                  file |-> fs[PathA].kind,
                                  recognized |-> FALSE]]
    /\ UNCHANGED <<fs, appVars>>

\* a call of check_format(PathA)
StoreProbe ==
    /\ st' = [st EXCEPT !.last = [op |-> "probe", pw |-> NoPw,
                                  res |-> Ok(NoDiary),
                                  file |-> fs[PathA].kind,
                                  recognized |-> check_format(fs[PathA])]]
    /\ UNCHANGED <<fs, appVars>>

NextStore ==
    \/ \E pw \in Passwords, fault \in BOOLEAN : StoreSave(pw, fault)
    \/ \E pw \in Passwords : StoreLoad(pw)
    \/ StoreProbe

SpecStore == InitStore /\ [][NextStore]_vars

-----------------------------------------------------------------------------
(* The session: App (app.rs) started from Arguments (args.rs).             *)

MaxPwLen == 1

\* the dates of a session: the day it starts on and the day after
SessionDates == {D1, D2}

NoPath == ""
AllPaths == Paths \cup {NoPath}

DocA == [k \in {D2} |-> <<"a", NL>>]

\* what PathA can hold when the session starts
SessionFiles ==
    {PlainFile(k) : k \in {"absent", "denied", "empty", "huge"}}
    \cup {MkFile("cocoon", NoPw, ToJson(<<>>)),
          MkFile("cocoon", NoPw, ToJson(DocA)),
          MkFile("cocoon", PwP, ToJson(DocA)),
          MkFile("cocoon", PwP, [kind |-> "text", members |-> {}])}

\* `text` is what follows --date on the command line, `date` the Date clap
\* makes of it
MkArgs(hasFile, file, hasPassword, pw, hasDate, d, text) ==
    [file |-> file, password |-> pw, hasFile |-> hasFile,
     hasPassword |-> hasPassword, date |-> d, hasDate |-> hasDate,
     text |-> text]

\* what --date is given as: two dates and a text that is no date
DateTexts ==
    {<<"0", "1", "-", "0", "1", "-", "2", "0", "2", "4">>,
     <<"0", "2", "-", "0", "1", "-", "2", "0", "2", "4">>,
     <<"0", "2", "/", "0", "1", "/", "2", "0", "2", "4">>}

\* the command line: --password requires --file; an option that is absent
\* holds its default
Arguments ==
    {a \in {MkArgs(hf, f, hp, pw, hd, D1, t) :
                hf \in BOOLEAN, f \in AllPaths, hp \in BOOLEAN,
                pw \in Passwords, hd \in BOOLEAN, t \in DateTexts \cup {<<>>}} :
        /\ a.hasFile = (a.file # NoPath)
        /\ a.hasPassword => a.hasFile
        /\ ~a.hasPassword => a.password = NoPw
        /\ a.hasPassword => a.password # NoPw
        /\ a.hasDate = (a.text # <<>>)}

\* the Arguments value once try_from has consumed it
NoArgs == MkArgs(FALSE, NoPath, FALSE, NoPw, FALSE, D1, <<>>)

NewForm == [og |-> <<>>, retype |-> <<>>, mode |-> "Typing", matching |-> TRUE]

\* DateSelection::new(date)
NewSelection(d) == [date |-> d, selection |-> "Date"]

NoStore == [doc |-> NoDiary, last |-> NoCall, wrote |-> NoWrite]

Step(name, res) == [name |-> name, res |-> res]

ResultName(r) == IF r.ok THEN "Ok" ELSE r.err

\* an or_insert that inserts nothing
OrInsertNothing(e, k) == e

\* an insert that replaces the buffer the key already has
InsertFresh(e, k) ==
    [x \in DOMAIN e \cup {k} |-> IF x = k THEN EmptyTextArea ELSE e[x]]

\* entries.entry(k).or_insert(input_area(k, None))
OrInsert(e, k) ==
    [x \in DOMAIN e \cup {k} |-> IF x \in DOMAIN e THEN e[x] ELSE EmptyTextArea]

\* entries.remove(&k)
Remove(e, k) == [x \in DOMAIN e \ {k} |-> e[x]]

\* App::new(), before TryFrom<Arguments> looks at the arguments
Init ==
    /\ pc = "Parse"
    /\ args \in Arguments
    /\ mode = "GetFile"
    /\ path = NoPath
    /\ today = D1
    /\ date = today
    /\ entries = <<>>
    /\ saved = TRUE
    /\ password = NoPw
    /\ \E f \in SessionFiles :
           fs = [p \in AllPaths |->
                   IF p = PathA THEN f
                   ELSE IF p = PathB THEN PlainFile("absent")
                   ELSE PlainFile("nodir")]
    /\ ph = ""
    /\ ta = <<>>
    /\ filename = NoPath
    /\ form = NewForm
    /\ uis = NewSelection(D1)
    /\ opened = FALSE
    /\ step = Step("new", "")
    /\ st = NoStore
    /\ term = Released
    /\ doc = NoDoc

\* the places where the program is about to call Date::today(): try_from
\* (args.rs 36), open_file_rw (app.rs 382) and delete (app.rs 315)
ReadsClock ==
    \/ pc = "TryFrom"
    \/ pc = "Loop" /\ mode = "GetFile"
    \/ pc = "DeleteSetDate"

\* Date::today() reads the wall clock at each call: midnight may pass
\* between two calls.  The step is taken where the next call is due.
Tick ==
    /\ ReadsClock
    /\ CheckedAddDay(today).ok
    /\ CheckedAddDay(today).date \in SessionDates
    /\ today' = CheckedAddDay(today).date
    /\ UNCHANGED <<pc, args, mode, path, date, entries, saved, password, fs,
                   ph, ta, filename, form, uis, opened, step, st, term, doc>>

\* a parse of the command line that drops a --date it cannot read
ClapDropsDate(r) ==
    /\ args' = [args EXCEPT !.date = IF r.ok THEN r.date ELSE D1,
                            !.hasDate = r.ok, !.text = <<>>]
    /\ pc' = "TryFrom"
    /\ step' = Step("clap", "Ok")

\* Arguments::parse() once the value of --date went through Date::from_str:
\* on an error clap prints it and ends the process with status 2
Clap(r) ==
    IF r.ok
    THEN /\ args' = [args EXCEPT !.date = r.date, !.text = <<>>]
         /\ pc' = "TryFrom"
         /\ step' = Step("clap", "Ok")
    ELSE /\ args' = NoArgs
         /\ pc' = "Ended"
         /\ step' = Step("clap", "2")

\* main.rs 5: Arguments::parse()
ArgsParse ==
    /\ pc = "Parse"
    /\ IF args.hasDate
       THEN Clap(ParseDate(args.text))
       ELSE /\ pc' = "TryFrom"
            /\ step' = Step("clap", "Ok")
            /\ UNCHANGED args
    /\ UNCHANGED <<mode, path, date, entries, saved, password, today, fs, ph,
                   ta, filename, form, uis, opened, st, term, doc>>

\* HashMap::from(diary) followed by entry(k).or_insert(..)
Materialize(dy, k) == OrInsert(EntriesFromDiary(dy), k)

\* args.rs 29-47: what --file without --password does with the result of
\* the empty-credential load
ArgsOutcome(r) ==
    IF r.ok THEN "Edit"
    ELSE IF r.err = "WrongPassword" THEN "Password"
    ELSE "Err"

\* the date try_from leaves in app.date (args.rs 21-23)
ArgsDate == IF args.hasDate THEN args.date ELSE date

\* args.rs 25-47: --file without --password, r the empty-credential load
TryFromFile(r) ==
    /\ args.hasFile /\ ~args.hasPassword
    /\ date' = ArgsDate
    /\ step' = Step("try_from", ResultName(r))
    /\ opened' = r.ok
    /\ IF ArgsOutcome(r) = "Edit"
       THEN /\ path' = args.file
            /\ password' = NoPw
            /\ mode' = "Edit"
            /\ entries' = Materialize(r.diary, today)
            /\ doc' = Held(Materialize(r.diary, today))
            /\ pc' = "Run"
       ELSE IF ArgsOutcome(r) = "Password"
       THEN /\ path' = args.file
            /\ mode' = "Password"
            /\ pc' = "Run"
            /\ UNCHANGED <<password, entries, doc>>
       ELSE /\ pc' = "Aborted"
            /\ UNCHANGED <<path, password, mode, entries, doc>>

\* args.rs 48-57: --file with --password, r the load try_load makes
TryFromCredentials(r) ==
    /\ args.hasFile /\ args.hasPassword
    /\ date' = ArgsDate
    /\ password' = args.password
    /\ path' = args.file
    /\ step' = Step("try_from", ResultName(r))
    /\ opened' = r.ok
    /\ IF r.ok
       THEN /\ entries' = Materialize(r.diary, ArgsDate)
            /\ doc' = Held(Materialize(r.diary, ArgsDate))
            /\ mode' = "Edit"
            /\ pc' = "Run"
       ELSE /\ pc' = "Aborted"
            /\ UNCHANGED <<mode, entries, doc>>

\* args.rs 58: no --file
TryFromNothing ==
    /\ ~args.hasFile
    /\ date' = ArgsDate
    /\ step' = Step("try_from", "Ok")
    /\ pc' = "Run"
    /\ UNCHANGED <<path, password, mode, entries, opened, doc>>

\* TryFrom<Arguments> for App
TryFrom ==
    /\ pc = "TryFrom"
    /\ \/ TryFromFile(read_jrnl(fs[args.file], NoPw))
       \/ TryFromCredentials(read_jrnl(fs[args.file], args.password))
       \/ TryFromNothing
    /\ args' = NoArgs
    /\ UNCHANGED <<saved, today, fs, ph, ta, filename, form, uis, st, term>>

\* main.rs 8: Err(e) => eprintln!("{e}"), and main returns: the process ends
\* with status 0
MainErr ==
    /\ pc = "Aborted"
    /\ pc' = "Ended"
    /\ step' = Step("main", "0")
    /\ UNCHANGED <<args, mode, path, date, entries, saved, password, today, fs,
                   ph, ta, filename, form, uis, opened, st, term, doc>>

\* App::run up to its loop: the entry for self.date is ensured
Run ==
    /\ pc = "Run"
    /\ entries' = OrInsert(entries, date)
    /\ pc' = "Loop"
    /\ step' = Step("run", "")
    /\ term' = Acquire(term)
    /\ UNCHANGED <<args, mode, path, date, saved, password, today, fs, ph, ta,
                   filename, form, uis, opened, st, doc>>

-----------------------------------------------------------------------------
(* AppMode::GetFile: open_file_rw, with new_file, create_file and          *)
(* new_password below it.                                                  *)

\* an open_file_rw that goes on to Edit with a file it could not read
OpenOutcomeLenient(r) ==
    IF r.ok \/ r.err = "InvalidFormat" THEN "Edit"
    ELSE IF r.err = "WrongPassword" THEN "Password"
    ELSE IF r.err = "NotFound" THEN "NewFile"
    ELSE "Retry"

\* an open_file_rw that asks for another path when the credential is wrong
OpenOutcomeAsksAgain(r) ==
    IF r.ok THEN "Edit"
    ELSE IF r.err = "NotFound" THEN "NewFile"
    ELSE "Retry"

\* app.rs 377-420: the arm open_file_rw takes on the result of the load
OpenOutcome(r) ==
    IF r.ok THEN "Edit"
    ELSE IF r.err = "WrongPassword" THEN "Password"
    ELSE IF r.err = "NotFound" THEN "NewFile"
    ELSE "Retry"

\* the placeholder the next prompt of open_file_rw shows
OpenPlaceholder(err) ==
    IF err = "InvalidFormat" THEN "Invalid File Format"
    ELSE IF err = "OutOfRangeSize" THEN "File too Large"
    ELSE IF err = "NotAccessible" THEN "File Cannot be Accesed"
    ELSE ""

\* open_file_rw once get_input returned Some(f), r the empty-credential load
OpenFile(f, r) ==
    /\ step' = Step("open_file_rw", ResultName(r))
    /\ opened' = (opened \/ r.ok)
    /\ IF OpenOutcome(r) = "Edit"
       THEN /\ mode' = "Edit"
            /\ entries' = Materialize(r.diary, today)
            /\ doc' = Held(Materialize(r.diary, today))
            /\ ph' = ""
            /\ UNCHANGED <<path, pc, filename, ta>>
       ELSE IF OpenOutcome(r) = "Password"
       THEN /\ path' = f
            /\ mode' = "Password"
            /\ ph' = ""
            /\ ta' = <<>>
            /\ UNCHANGED <<entries, pc, filename, doc>>
       ELSE IF OpenOutcome(r) = "NewFile"
       THEN /\ pc' = "CreateFile"
            /\ filename' = f
            /\ UNCHANGED <<mode, entries, path, ph, ta, doc>>
       ELSE /\ ph' = OpenPlaceholder(r.err)
            /\ UNCHANGED <<mode, entries, path, pc, filename, ta, doc>>

\* get_input returned Some(f)
GetFileEnter(f) ==
    /\ pc = "Loop" /\ mode = "GetFile"
    /\ OpenFile(f, read_jrnl(fs[f], NoPw))
    /\ UNCHANGED <<args, date, saved, password, today, fs, form, uis, st, term>>

\* get_input returned None (Esc)
GetFileEsc ==
    /\ pc = "Loop" /\ mode = "GetFile"
    /\ mode' = "Exit"
    /\ ph' = ""
    /\ step' = Step("open_file_rw", "Esc")
    /\ UNCHANGED <<pc, args, path, date, entries, saved, password, today, fs,
                   ta, filename, form, uis, opened, st, term, doc>>

\* create_file answered 'y': File::create(path)?, then new_password
CreateFileYes ==
    /\ pc = "CreateFile"
    /\ LET io == FileCreate(fs[filename])
       IN  IF io = IoOk
           THEN /\ fs' = [fs EXCEPT ![filename] = PlainFile("empty")]
                /\ path' = filename
                /\ pc' = "NewPassword"
                /\ form' = NewForm
                /\ opened' = TRUE
                /\ step' = Step("new_file", "created")
                /\ UNCHANGED <<ph, filename>>
           ELSE /\ ph' = "File could not be created"
                /\ pc' = "Loop"
                /\ filename' = NoPath
                /\ step' = Step("new_file", "Err")
                /\ UNCHANGED <<fs, path, form, opened>>
    /\ UNCHANGED <<args, mode, date, entries, saved, password, today, ta, uis, st, term, doc>>

\* create_file answered 'n'
CreateFileNo ==
    /\ pc = "CreateFile"
    /\ mode' = "Exit"
    /\ pc' = "Loop"
    /\ filename' = NoPath
    /\ ph' = ""
    /\ step' = Step("new_file", "declined")
    /\ UNCHANGED <<args, path, date, entries, saved, password, today, fs, ta,
                   form, uis, opened, st, term, doc>>

\* the draw, poll or read of create_file or new_password fails: new_file
\* returns the error and open_file_rw prompts again (app.rs 412-414)
NewFileError ==
    /\ pc \in {"CreateFile", "NewPassword"}
    /\ ph' = "File could not be created"
    /\ pc' = "Loop"
    /\ filename' = NoPath
    /\ form' = NewForm
    /\ step' = Step("new_file", "Err")
    /\ UNCHANGED <<args, mode, path, date, entries, saved, password, today, fs,
                   ta, uis, opened, st, term, doc>>

PwChars == {"p"}

\* PasswordForm::input on a character key
FormChar(c) ==
    /\ pc = "NewPassword"
    /\ form.mode \in {"Typing", "Retyping"}
    /\ IF form.mode = "Typing"
       THEN /\ Len(form.og) < MaxPwLen
            /\ form' = [form EXCEPT !.og = Append(@, c)]
       ELSE /\ Len(form.retype) < MaxPwLen
            /\ form' = [form EXCEPT !.retype = Append(@, c)]
    /\ step' = Step("new_password", "char")
    /\ UNCHANGED <<pc, args, mode, path, date, entries, saved, password, today,
                   fs, ph, ta, filename, uis, opened, st, term, doc>>

\* PasswordForm::input on Enter while Typing or Retyping
FormEnter ==
    /\ pc = "NewPassword"
    /\ form.mode \in {"Typing", "Retyping"}
    /\ form' = [form EXCEPT
                  !.mode = IF form.mode = "Typing" THEN "Retyping" ELSE "Submitted"]
    /\ step' = Step("new_password", "enter")
    /\ UNCHANGED <<pc, args, mode, path, date, entries, saved, password, today,
                   fs, ph, ta, filename, uis, opened, st, term, doc>>

\* a form that returns the first field without comparing the two
FormSubmittedUncompared ==
    /\ pc = "NewPassword"
    /\ form.mode = "Submitted"
    /\ password' = form.og
    /\ entries' = [k \in {date} |-> EmptyTextArea]
    /\ path' = filename
    /\ mode' = "Edit"
    /\ pc' = "Loop"
    /\ form' = NewForm
    /\ filename' = NoPath
    /\ ph' = ""
    /\ step' = Step("new_password", "Ok")
    /\ UNCHANGED <<args, date, saved, today, fs, ta, uis, opened, st, term, doc>>

\* PasswordForm::input on any key once Submitted: the two fields are compared;
\* on Some(pwd) new_password and new_file return and open_file_rw enters Edit
FormSubmitted ==
    /\ pc = "NewPassword"
    /\ form.mode = "Submitted"
    /\ IF form.og # form.retype
       THEN /\ form' = [og |-> <<>>, retype |-> <<>>, mode |-> "Typing",
                        matching |-> FALSE]
            /\ step' = Step("new_password", "mismatch")
            /\ UNCHANGED <<pc, mode, path, entries, password, filename, ph>>
       ELSE /\ password' = form.og
            /\ entries' = [k \in {date} |-> EmptyTextArea]
            /\ path' = filename
            /\ mode' = "Edit"
            /\ pc' = "Loop"
            /\ form' = NewForm
            /\ filename' = NoPath
            /\ ph' = ""
            /\ step' = Step("new_password", "Ok")
    /\ UNCHANGED <<args, date, saved, today, fs, ta, uis, opened, st, term, doc>>

-----------------------------------------------------------------------------
(* AppMode::Password: get_password and try_load.                           *)

\* a character key: ta.input(k)
PasswordChar(c) ==
    /\ pc = "Loop" /\ mode = "Password"
    /\ Len(ta) < MaxPwLen
    /\ ta' = Append(ta, c)
    /\ step' = Step("get_password", "char")
    /\ UNCHANGED <<pc, args, mode, path, date, entries, saved, password, today,
                   fs, ph, filename, form, uis, opened, st, term, doc>>

\* a get_password that gives up after one rejected credential
TryPasswordOnce(r) ==
    /\ password' = ta
    /\ step' = Step("get_password", ResultName(r))
    /\ opened' = (opened \/ r.ok)
    /\ ta' = <<>>
    /\ ph' = ""
    /\ mode' = IF r.ok THEN "Edit" ELSE "Exit"
    /\ entries' = IF r.ok THEN Materialize(r.diary, date) ELSE entries
    /\ doc' = IF r.ok THEN Held(Materialize(r.diary, date)) ELSE doc

\* get_password on Enter, r the load try_load makes
TryPassword(r) ==
    /\ password' = ta
    /\ step' = Step("get_password", ResultName(r))
    /\ opened' = (opened \/ r.ok)
    /\ ta' = <<>>
    /\ IF r.ok
       THEN /\ entries' = Materialize(r.diary, date)
            /\ doc' = Held(Materialize(r.diary, date))
            /\ mode' = "Edit"
            /\ ph' = ""
       ELSE /\ ph' = "Wrong Password"
            /\ UNCHANGED <<entries, mode, doc>>

\* Enter: self.password = the line typed, then try_load
PasswordEnter ==
    /\ pc = "Loop" /\ mode = "Password"
    /\ TryPassword(read_jrnl(fs[path], ta))
    /\ UNCHANGED <<pc, args, path, date, saved, today, fs, filename, form, uis, st, term>>

\* Esc
PasswordEsc ==
    /\ pc = "Loop" /\ mode = "Password"
    /\ mode' = "Exit"
    /\ ta' = <<>>
    /\ ph' = ""
    /\ step' = Step("get_password", "Esc")
    /\ UNCHANGED <<pc, args, path, date, entries, saved, password, today, fs,
                   filename, form, uis, opened, st, term, doc>>

-----------------------------------------------------------------------------
(* AppMode::Edit: edit_view and save.                                      *)

\* the characters and line breaks a buffer holds
BufSize(b) == Len(JoinLines(b)) - 1

\* TextArea::input(event) on the selected entry: the new lines and whether
\* the text changed.  "char" appends a character, "backspace" removes the
\* last character or line, "move" is any event that changes no text (cursor
\* keys, resize, mouse)
TextInput(b, ev) ==
    LET n == Len(b)
    IN  IF ev = "char" /\ BufSize(b) < MaxTextLen
        THEN [lines |-> [b EXCEPT ![n] = Append(@, "a")], mutated |-> TRUE]
        ELSE IF ev = "backspace" /\ b[n] # <<>>
        THEN [lines |-> [b EXCEPT ![n] = SubSeq(@, 1, Len(@) - 1)], mutated |-> TRUE]
        ELSE IF ev = "backspace" /\ n > 1
        THEN [lines |-> SubSeq(b, 1, n - 1), mutated |-> TRUE]
        ELSE [lines |-> b, mutated |-> FALSE]

InputEvents == {"char", "backspace", "move"}

\* app.rs 179/182: self.saved = !input(key)
SavedAfterInput(mutated, sv) == ~mutated

\* a save that sets the flag whatever write_to returned
SavedAfterSaveAlways(ok, sv) == TRUE

\* app.rs 89-91: self.saved after write_to returned
SavedAfterSave(ok, sv) == IF ok THEN TRUE ELSE sv

\* app.rs 145: the draw of edit_view indexes entries[&self.date]
EditPanic ==
    /\ pc = "Loop" /\ mode = "Edit"
    /\ date \notin DOMAIN entries
    /\ pc' = "Panicked"
    /\ step' = Step("edit_view", "panic")
    /\ \E unwinds \in BOOLEAN : term' = IF unwinds THEN Drop(term) ELSE term
    /\ UNCHANGED <<args, mode, path, date, entries, saved, password, today, fs,
                   ph, ta, filename, form, uis, opened, st, doc>>

EditReady == pc = "Loop" /\ mode = "Edit" /\ date \in DOMAIN entries

\* App::save, w what write_to returned and left at self.path
save(w) ==
    /\ fs' = [fs EXCEPT ![path] = w.file]
    /\ saved' = SavedAfterSave(w.res.ok, saved)
    /\ doc' = IF w.res.ok THEN Held(entries) ELSE doc
    /\ step' = Step("save", ResultName(w.res))

\* Ctrl+S
EditSave(fault) ==
    /\ EditReady
    /\ save(write_to(DiaryFromEntries(entries), fs[path], password, fault))
    /\ UNCHANGED <<pc, args, mode, path, date, entries, password, today, ph, ta,
                   filename, form, uis, opened, st, term>>

\* the mode edit_view leaves in on a control key (app.rs 157-178)
EditControl(key) ==
    IF key = "Alt+D" THEN "SetDate"
    ELSE IF key = "Ctrl+R" THEN "Delete"
    ELSE "Exit"

ControlKeys == {"Alt+D", "Ctrl+R", "Esc"}

\* Alt+D, Ctrl+R, Esc
EditKey(key) ==
    /\ EditReady
    /\ mode' = EditControl(key)
    /\ uis' = IF mode' = "SetDate" THEN NewSelection(date) ELSE uis
    /\ step' = Step("edit_view", "")
    /\ UNCHANGED <<pc, args, path, date, entries, saved, password, today, fs, ph,
                   ta, filename, form, opened, st, term, doc>>

\* app.rs 179/182 once input returned r: the new lines and the flag
Forward(r) ==
    /\ entries' = [entries EXCEPT ![date] = r.lines]
    /\ saved' = SavedAfterInput(r.mutated, saved)
    /\ step' = Step("input", IF r.mutated THEN "mutated" ELSE "same")

\* any other event is forwarded to the selected entry
EditInput(ev) ==
    /\ EditReady
    /\ Forward(TextInput(entries[date], ev))
    /\ UNCHANGED <<pc, args, mode, path, date, password, today, fs, ph, ta,
                   filename, form, uis, opened, st, term, doc>>

-----------------------------------------------------------------------------
(* AppMode::SetDate: set_date_ui.                                          *)

PickerKeys == {"+", "-", "Right", "Left"}

\* the picker keys a session presses: the day field is the one that moves
\* between the dates of SessionDates (SpecDate presses all four keys)
SessionKeys == {"+", "-"}

\* set_date_ui on a key that keeps the picker open (app.rs 275-287)
PickerKey(u, k) ==
    IF k = "+" THEN increment_selected(u)
    ELSE IF k = "-" THEN decrement_selected(u)
    ELSE IF k = "Right" THEN select_next(u)
    ELSE select_prev(u)

InPicker == (pc = "Loop" /\ mode = "SetDate") \/ pc = "DeleteSetDate"

\* a picker key, in AppMode::SetDate or in the picker delete opens; the
\* session stays within SessionDates
Picked(u, k) ==
    /\ u # uis
    /\ u.date \in SessionDates
    /\ uis' = u
    /\ step' = Step("set_date_ui", "")

SetDateKey(k) ==
    /\ InPicker
    /\ Picked(PickerKey(uis, k), k)
    /\ UNCHANGED <<pc, args, mode, path, date, entries, saved, password, today,
                   fs, ph, ta, filename, form, opened, st, term, doc>>

\* AppMode::SetDate, Enter: run inserts the entry and adopts the date
SetDateEnter ==
    /\ pc = "Loop" /\ mode = "SetDate"
    /\ mode' = "Edit"
    /\ entries' = OrInsert(entries, uis.date)
    /\ date' = uis.date
    /\ uis' = NewSelection(D1)
    /\ step' = Step("set_date_ui", "Some")
    /\ UNCHANGED <<pc, args, path, saved, password, today, fs, ph, ta, filename,
                   form, opened, st, term, doc>>

\* a cancel that adopts the date the picker shows
SetDateEscAdopts ==
    /\ pc = "Loop" /\ mode = "SetDate"
    /\ mode' = "Edit"
    /\ date' = uis.date
    /\ entries' = OrInsert(entries, uis.date)
    /\ uis' = NewSelection(D1)
    /\ step' = Step("set_date_ui", "None")
    /\ UNCHANGED <<pc, args, path, saved, password, today, fs, ph, ta, filename,
                   form, opened, st, term, doc>>

\* AppMode::SetDate, Esc
SetDateEsc ==
    /\ pc = "Loop" /\ mode = "SetDate"
    /\ mode' = "Edit"
    /\ uis' = NewSelection(D1)
    /\ step' = Step("set_date_ui", "None")
    /\ UNCHANGED <<pc, args, path, date, entries, saved, password, today, fs, ph,
                   ta, filename, form, opened, st, term, doc>>

-----------------------------------------------------------------------------
(* AppMode::Delete: delete.                                                *)

\* Esc or 'n'
DeleteNo ==
    /\ pc = "Loop" /\ mode = "Delete"
    /\ mode' = "Edit"
    /\ step' = Step("delete", "n")
    /\ UNCHANGED <<pc, args, path, date, entries, saved, password, today, fs, ph,
                   ta, filename, form, uis, opened, st, term, doc>>

\* 'y': the entry is removed and the picker opens inside delete
DeleteYes ==
    /\ pc = "Loop" /\ mode = "Delete"
    /\ entries' = Remove(entries, date)
    /\ uis' = NewSelection(date)
    /\ pc' = "DeleteSetDate"
    /\ step' = Step("delete", "y")
    /\ UNCHANGED <<args, mode, path, date, saved, password, today, fs, ph, ta,
                   filename, form, opened, st, term, doc>>

\* the picker inside delete returned Some(date) (Enter) or None (Esc)
DeletePicked(confirm) ==
    /\ pc = "DeleteSetDate"
    /\ LET d == IF confirm THEN uis.date ELSE today
       IN  /\ date' = d
           /\ entries' = OrInsert(entries, d)
    /\ mode' = "Edit"
    /\ pc' = "Loop"
    /\ uis' = NewSelection(D1)
    /\ step' = Step("delete", IF confirm THEN "Some"
                              ELSE IF entries = <<>> THEN "NoneEmpty" ELSE "None")
    /\ UNCHANGED <<args, path, saved, password, today, fs, ph, ta, filename,
                   form, opened, st, term, doc>>

-----------------------------------------------------------------------------
(* AppMode::AskToSave (pre_exit) and AppMode::Exit.                        *)

\* pre_exit with nothing unsaved
PreExitSaved ==
    /\ pc = "Loop" /\ mode = "AskToSave"
    /\ saved
    /\ mode' = "Exit"
    /\ step' = Step("pre_exit", "saved")
    /\ UNCHANGED <<pc, args, path, date, entries, saved, password, today, fs, ph,
                   ta, filename, form, uis, opened, st, term, doc>>

\* a prompt whose decline drops the unsaved flag
PreExitAnswerDiscards(quit) ==
    /\ pc = "Loop" /\ mode = "AskToSave"
    /\ ~saved
    /\ mode' = IF quit THEN "Exit" ELSE "Edit"
    /\ saved' = TRUE
    /\ step' = Step("pre_exit", IF quit THEN "y" ELSE "n")
    /\ UNCHANGED <<pc, args, path, date, entries, password, today, fs, ph,
                   ta, filename, form, uis, opened, st, term, doc>>

\* pre_exit prompting: 'y' quits, Esc or 'n' returns to Edit
PreExitAnswer(quit) ==
    /\ pc = "Loop" /\ mode = "AskToSave"
    /\ ~saved
    /\ mode' = IF quit THEN "Exit" ELSE "Edit"
    /\ step' = Step("pre_exit", IF quit THEN "y" ELSE "n")
    /\ UNCHANGED <<pc, args, path, date, entries, saved, password, today, fs, ph,
                   ta, filename, form, uis, opened, st, term, doc>>

\* the App is dropped: its fields are no more, and the variables that stood
\* for them hold the values of a fresh App
Gone ==
    /\ mode' = "GetFile"
    /\ path' = NoPath
    /\ date' = D1
    /\ entries' = <<>>
    /\ saved' = TRUE
    /\ password' = NoPw
    /\ ph' = ""
    /\ ta' = <<>>
    /\ filename' = NoPath
    /\ form' = NewForm
    /\ uis' = NewSelection(D1)
    /\ doc' = NoDoc

\* AppMode::Exit: run returns and the App it owns is dropped
Exit ==
    /\ pc = "Loop" /\ mode = "Exit"
    /\ pc' = "Exited"
    /\ step' = Step("exit", "")
    /\ term' = Drop(exit(term))
    /\ Gone
    /\ UNCHANGED <<args, today, fs, opened, st>>

\* terminal.draw(..)? or event::poll(..)? fails in a modal state: run returns
\* the error and the App it owns is dropped
ModalError ==
    /\ pc \in {"Loop", "DeleteSetDate"}
    /\ mode # "Exit"
    /\ pc' = "Failed"
    /\ step' = Step("run", "Err")
    /\ term' = Drop(term)
    /\ Gone
    /\ UNCHANGED <<args, today, fs, opened, st>>

-----------------------------------------------------------------------------

\* AppMode::AskToSave is dispatched by run, but no statement of the program
\* assigns it: PreExitSaved and PreExitAnswer are never enabled from Init and
\* are left out of Next.
Next ==
    \/ Tick
    \/ ArgsParse
    \/ TryFrom
    \/ MainErr
    \/ Run
    \/ \E f \in Paths : GetFileEnter(f)
    \/ GetFileEsc
    \/ CreateFileYes
    \/ CreateFileNo
    \/ NewFileError
    \/ \E c \in PwChars : FormChar(c)
    \/ FormEnter
    \/ FormSubmitted
    \/ \E c \in PwChars : PasswordChar(c)
    \/ PasswordEnter
    \/ PasswordEsc
    \/ EditPanic
    \/ \E fault \in BOOLEAN : EditSave(fault)
    \/ \E key \in ControlKeys : EditKey(key)
    \/ \E ev \in InputEvents : EditInput(ev)
    \/ \E k \in SessionKeys : SetDateKey(k)
    \/ SetDateEnter
    \/ SetDateEsc
    \/ DeleteNo
    \/ DeleteYes
    \/ \E confirm \in BOOLEAN : DeletePicked(confirm)
    \/ Exit
    \/ ModalError

Spec == Init /\ [][Next]_vars

-----------------------------------------------------------------------------
(* SpecCycle: the entries across sessions.  App::save writes the entries   *)
(* to self.path and App::try_load, which the next session runs on the same *)
(* path with the same credential, reads them back.                         *)

MaxLines == 3

\* the lines a buffer can hold: no line holds a line break
LineTexts == {t \in Texts : \A i \in 1..Len(t) : t[i] # NL}

\* the buffers the first session starts with: one or two lines
CycleBuffers == {<<t>> : t \in LineTexts} \cup {<<t, u>> : t \in LineTexts, u \in LineTexts}

CycleEntries == UNION {[ks -> CycleBuffers] : ks \in (SUBSET SessionDates) \ {{}}}

InitCycle ==
    /\ pc = "Cycle"
    /\ args = NoArgs
    /\ mode = "Edit"
    /\ path = PathA
    /\ today = D1
    /\ entries \in CycleEntries
    /\ date \in DOMAIN entries
    /\ saved = FALSE
    /\ password \in {NoPw, PwP}
    /\ fs = [p \in AllPaths |->
               IF p = NoPath THEN PlainFile("nodir") ELSE PlainFile("absent")]
    /\ ph = ""
    /\ ta = <<>>
    /\ filename = NoPath
    /\ form = NewForm
    /\ uis = NewSelection(D1)
    /\ opened = TRUE
    /\ step = Step("new", "")
    /\ st = NoStore
    /\ term = Released
    /\ doc = NoDoc

\* App::save in one session
CycleSave ==
    /\ pc = "Cycle"
    /\ save(write_to(DiaryFromEntries(entries), fs[path], password, FALSE))
    /\ UNCHANGED <<pc, args, mode, path, date, entries, password, today, ph, ta,
                   filename, form, uis, opened, st, term>>

\* App::try_load once read_jrnl returned r
try_load(r) ==
    /\ r.ok
    /\ entries' = Materialize(r.diary, date)
    /\ doc' = Held(Materialize(r.diary, date))
    /\ step' = Step("try_load", ResultName(r))

\* App::try_load in the next session, same path, credential and date
CycleLoad ==
    /\ pc = "Cycle"
    /\ \A k \in DOMAIN entries : Len(entries[k]) < MaxLines
    /\ try_load(read_jrnl(fs[path], password))
    /\ saved' = TRUE
    /\ UNCHANGED <<pc, args, mode, path, date, password, today, fs, ph, ta,
                   filename, form, uis, opened, st, term>>

NextCycle == CycleSave \/ CycleLoad

SpecCycle == InitCycle /\ [][NextCycle]_vars

-----------------------------------------------------------------------------
(* SpecPreExit: App::pre_exit, the handler run dispatches for              *)
(* AppMode::AskToSave.  No statement of the program assigns that mode, so  *)
(* the handler is started here in the states a session in Edit can hold:   *)
(* an opened document, a selected entry, the flag either way.              *)

InitPreExit ==
    /\ pc = "Loop"
    /\ args = NoArgs
    /\ mode = "AskToSave"
    /\ path = PathA
    /\ today = D1
    /\ entries \in CycleEntries
    /\ date \in DOMAIN entries
    /\ saved \in BOOLEAN
    /\ password \in {NoPw, PwP}
    /\ fs = [p \in AllPaths |->
               IF p = NoPath THEN PlainFile("nodir") ELSE PlainFile("absent")]
    /\ ph = ""
    /\ ta = <<>>
    /\ filename = NoPath
    /\ form = NewForm
    /\ uis = NewSelection(D1)
    /\ opened = TRUE
    /\ step = Step("edit_view", "")
    /\ st = NoStore
    /\ term = Acquire(Released)
    /\ doc = NoDoc

NextPreExit ==
    \/ PreExitSaved
    \/ \E quit \in BOOLEAN : PreExitAnswer(quit)
    \/ Exit

SpecPreExit == InitPreExit /\ [][NextPreExit]_vars

-----------------------------------------------------------------------------
(* SpecDate: Date on its own.  A date is formatted and the text parsed     *)
(* back, a text is parsed, one key is pressed in the date picker.          *)

\* the dates drawn: the ends of the calendar, the ends of months and years,
\* leap days, the years where %Y changes shape
ProbeDates ==
    {MkDate(1, 1, MIN_YEAR), MkDate(1, 2, MIN_YEAR), MkDate(31, 12, MAX_YEAR),
     MkDate(30, 11, MAX_YEAR), MkDate(15, 6, MAX_YEAR), MkDate(15, 6, MIN_YEAR),
     MkDate(31, 12, 0 - 1), MkDate(1, 1, 0), MkDate(31, 12, 9999),
     MkDate(1, 1, 10000), MkDate(29, 2, 2024), MkDate(28, 2, 2023),
     MkDate(31, 1, 2024), MkDate(31, 3, 2024), MkDate(1, 3, 2024),
     MkDate(31, 12, 2023), D1}

\* the texts drawn
ProbeTexts ==
    {<<"0", "1", "-", "0", "1", "-", "2", "0", "2", "4">>,
     <<"1", "-", "1", "-", "2", "0", "2", "4">>,
     <<"2", "0", "2", "4", "-", "0", "1", "-", "0", "1">>,
     <<"0", "1", "/", "0", "1", "/", "2", "0", "2", "4">>,
     <<" ", "0", "1", "-", "0", "1", "-", "2", "0", "2", "4">>,
     <<"0", "1", "-", "0", "1", "-", "+", "2", "0", "2", "4">>,
     <<"3", "1", "-", "0", "2", "-", "2", "0", "2", "4">>,
     <<"0", "1", "-", "0", "1", "-", "2", "0", "2", "4", " ">>,
     <<"2", "9", "-", "0", "2", "-", "2", "0", "2", "4">>,
     <<"0", "1", "-", "1", "3", "-", "2", "0", "2", "4">>}

InitDate ==
    /\ pc = "Date"
    /\ args = NoArgs
    /\ mode = "SetDate"
    /\ path = NoPath
    /\ today = D1
    /\ date = D1
    /\ entries = <<>>
    /\ saved = TRUE
    /\ password = NoPw
    /\ fs = [p \in AllPaths |-> PlainFile("absent")]
    /\ ph = ""
    /\ ta \in ProbeTexts
    /\ filename = NoPath
    /\ form = NewForm
    /\ \E d \in ProbeDates, sel \in {"Date", "Month", "Year"} :
           uis = [date |-> d, selection |-> sel]
    /\ opened = FALSE
    /\ step = Step("new", "")
    /\ st = NoStore
    /\ term = Released
    /\ doc = NoDoc

\* String::from(date): the picker's date written as text
DateFormat ==
    /\ pc = "Date"
    /\ ta' = FormatDate(uis.date)
    /\ pc' = "Formatted"
    /\ step' = Step("format", "")
    /\ UNCHANGED <<args, mode, path, date, entries, saved, password, today, fs,
                   ph, filename, form, uis, opened, st, term, doc>>

\* Date::try_from(text) returned r
DateParsed(r) ==
    /\ step' = Step("parse", IF r.ok THEN "Ok" ELSE "Err")
    /\ date' = IF r.ok THEN r.date ELSE date

\* Date::try_from on the text: one drawn, or one just formatted
DateParse ==
    /\ pc \in {"Date", "Formatted"}
    /\ DateParsed(ParseDate(ta))
    /\ pc' = IF pc = "Date" THEN "Parsed" ELSE "RoundTrip"
    /\ UNCHANGED <<args, mode, path, entries, saved, password, today, fs, ph, ta,
                   filename, form, uis, opened, st, term, doc>>

\* one key in the picker; `date` keeps the date the picker showed before
DateKey(k) ==
    /\ pc = "Date"
    /\ uis' = PickerKey(uis, k)
    /\ date' = uis.date
    /\ pc' = "Keyed"
    /\ step' = Step("key", k)
    /\ UNCHANGED <<args, mode, path, entries, saved, password, today, fs, ph, ta,
                   filename, form, opened, st, term, doc>>

NextDate ==
    \/ DateFormat
    \/ DateParse
    \/ \E k \in PickerKeys : DateKey(k)

SpecDate == InitDate /\ [][NextDate]_vars

-----------------------------------------------------------------------------
(* Properties of the session (Spec).                                       *)

ContentModes == {"Edit", "SetDate", "Delete", "AskToSave"}

\* what the user can see or what the next draw is computed from
Visible == <<mode, path, date, entries, saved, password, ph, ta, filename, form, uis>>

SaveFailed(s) == s.name = "save" /\ s.res \in DiaryError

\* C1: the mode is Edit, SetDate, Delete or AskToSave only if an earlier
\* step of the session was a successful load or an accepted file creation.
C1_ContentModesNeedDocument == mode \in ContentModes => opened

\* C1 happens: the session is in Edit after a load or a creation
C1_InEditAfterOpen == pc = "Loop" /\ mode = "Edit" /\ opened

\* C2: no step takes the session from Edit straight to Exit: an exit-request
\* in Edit goes to AskToSave first.
C2_ExitOnlyThroughAskToSave == [][mode = "Edit" => mode' # "Exit"]_vars

\* C3: the only step that takes the unsaved flag from true to false is a
\* save-request that completed successfully.
C3_UnsavedUntilSaved == [][(~saved /\ saved') => step' = Step("save", "Ok")]_vars

\* C4: a save-request in Edit that ends in a DiaryError leaves the unsaved
\* flag, the entries, the selected date and the mode as they were.
C4_FailedSaveChangesNothing ==
    [][SaveFailed(step') =>
          /\ saved' = saved
          /\ entries' = entries
          /\ date' = date
          /\ mode' = mode]_vars

\* C4 happens: a save-request failed while there were unsaved changes
C4_FailedSaveWhileUnsaved ==
    pc = "Loop" /\ mode = "Edit" /\ SaveFailed(step) /\ ~saved

\* C5: a save-request in Edit that ends in a DiaryError leaves an error
\* indication: something the user is shown differs from before the request.
C5_FailedSaveIsShown == [][SaveFailed(step') => Visible' # Visible]_vars

\* C6: whenever the session is in Edit the entries hold an entry for the
\* selected date.
C6_EditHasSelectedEntry == (pc = "Loop" /\ mode = "Edit") => date \in DOMAIN entries

\* C16: when the only entry was deleted and the forced re-selection is
\* cancelled, the session returns to Edit with exactly one entry, empty and
\* keyed by today(), and today() is the selected date.
C16_CancelAfterLastDelete ==
    [][(pc = "DeleteSetDate" /\ entries = <<>> /\ step' = Step("delete", "NoneEmpty"))
          => /\ pc' = "Loop" /\ mode' = "Edit"
             /\ entries' = [k \in {today} |-> EmptyTextArea]
             /\ date' = today]_vars

\* C16 happens: the re-selection after the last delete was cancelled on a
\* day other than the one the session started on
C16_CancelledAfterLastDelete ==
    step = Step("delete", "NoneEmpty") /\ today # D1 /\ mode = "Edit"

\* the credential-creation form was submitted with two different values
Mismatched == pc = "NewPassword" /\ form.mode = "Submitted" /\ form.og # form.retype

\* C17: in the credential-creation flow a retyped value different from the
\* first clears both fields and restarts at the first field, raises no
\* DiaryError, sets no credential and leaves no container at the path; a
\* credential is adopted only when both fields are equal.
C17_MismatchRestartsForm ==
    [][/\ (Mismatched /\ step'.name = "new_password")
          => /\ form'.og = <<>> /\ form'.retype = <<>> /\ form'.mode = "Typing"
             /\ pc' = "NewPassword" /\ mode' = mode
             /\ step'.res \notin DiaryError
             /\ password' = password
             /\ fs' = fs /\ fs[path].kind # "cocoon"
       /\ (pc = "NewPassword" /\ password' # password)
          => (form.og = form.retype /\ password' = form.og)]_vars

\* C17 happens: the form has restarted after two different values
C17_FormRestarted ==
    /\ pc = "NewPassword" /\ step = Step("new_password", "mismatch")
    /\ form.mode = "Typing" /\ ~form.matching /\ password = NoPw

\* startup was aborted by the direct load of --file with --password
DirectLoadFailed == pc \in {"Aborted", "Ended"} /\ step.name \in {"try_from", "main"}
                        /\ password # NoPw

\* C18: when the direct load of --file with --password returns a DiaryError
\* the process ends with a non-success outcome and never runs a modal state
\* of the loop.
C18_DirectLoadFailureIsFatal ==
    DirectLoadFailed
        => /\ mode = "GetFile" /\ entries = <<>>
           /\ pc = "Ended" => step.res # "0"

\* C19: with --file and no --password every failure of the
\* empty-credential load leads into prompting: the loop is entered in
\* Password or GetFile and startup is not aborted.
C19_FileOnlyFailurePrompts ==
    (step.name = "try_from" /\ step.res \in DiaryError /\ password = NoPw)
        => (pc = "Run" /\ mode \in {"Password", "GetFile"})

LoopEnded == pc \in {"Exited", "Failed"}

LoadFailureHandled(f, r) ==
    /\ (~r.ok /\ r.err = "WrongPassword")
          => (path' = f /\ mode' = "Password" /\ pc' = "Loop")
    /\ (~r.ok /\ r.err \in {"InvalidFormat", "OutOfRangeSize", "NotAccessible"})
          => /\ mode' = "GetFile" /\ pc' = "Loop"
             /\ entries' = entries /\ path' = path /\ password' = password

\* C22: in GetFile an empty-credential load that returns WrongPassword stores
\* the entered path and moves to Password; one that returns InvalidFormat,
\* OutOfRangeSize or NotAccessible stays in GetFile with the entries, the
\* stored path and the credential unchanged.
C22_GetFileLoadFailure ==
    [][\A f \in Paths :
          GetFileEnter(f) => LoadFailureHandled(f, read_jrnl(fs[f], NoPw))]_vars

\* C22 happens: a file that is no container was entered and GetFile asks again
C22_AskedAgain ==
    /\ pc = "Loop" /\ mode = "GetFile"
    /\ step = Step("open_file_rw", "InvalidFormat") /\ ph = "Invalid File Format"

\* C23: in GetFile after NotFound, accepting the creation and completing the
\* credential flow enters Edit with the entered path stored, the new
\* credential stored and exactly one empty entry keyed by today(); declining
\* goes to Exit without creating any file.
C23_CreationEntersEdit ==
    [][/\ (pc = "NewPassword" /\ step' = Step("new_password", "Ok"))
          => /\ pc' = "Loop" /\ mode' = "Edit"
             /\ path' = filename
             /\ password' = form.og
             /\ entries' = [k \in {today} |-> EmptyTextArea]
       /\ (pc = "CreateFile" /\ step' = Step("new_file", "declined"))
          => (pc' = "Loop" /\ mode' = "Exit" /\ fs' = fs)]_vars

\* C24: once the creation of a missing file was accepted the file at the
\* path is a valid empty container: loading it with the chosen credential
\* succeeds, also when nothing was saved since.
C24_CreatedFileLoads ==
    (pc = "Loop" /\ step = Step("new_password", "Ok"))
        => read_jrnl(fs[path], password).ok

\* the entries e hold the document dy, and beyond it nothing but the empty
\* entry every load ensures for the selected date k
HoldsDocument(e, dy, k) ==
    /\ DOMAIN e = DOMAIN dy \cup {k}
    /\ \A x \in DOMAIN dy : e[x] = TextAreaFrom(SplitLines(dy[x]))
    /\ k \notin DOMAIN dy => e[k] = EmptyTextArea

\* what C25 says of a credential submitted in Password, r its load
CredentialHandled(r) ==
    /\ r.ok => (mode' = "Edit" /\ HoldsDocument(entries', r.diary, date))
    /\ ~r.ok => /\ r.err \in DiaryError
                /\ mode' = "Password" /\ pc' = "Loop"
                /\ ta' = <<>>
                /\ entries' = entries /\ path' = path

\* C25: in Password a submitted credential whose load succeeds moves to Edit
\* with the loaded document as entries; one whose load returns any
\* DiaryError stays in Password with the input cleared and the entries and
\* the stored path unchanged, attempt after attempt; a cancel moves to Exit.
C25_PasswordAttempts ==
    [][/\ PasswordEnter => CredentialHandled(read_jrnl(fs[path], ta))
       /\ PasswordEsc => mode' = "Exit"]_vars

\* C25 happens: a typed credential was rejected with an error other than
\* WrongPassword and Password asks again
C25_RejectedAgain ==
    /\ pc = "Loop" /\ mode = "Password" /\ ta = <<>> /\ password # NoPw
    /\ step = Step("get_password", "InvalidFormat")

\* C26: whenever the session is in Edit the path a save writes to is the
\* path of the file loaded or created in this session and the credential is
\* the one that load or creation used: every step that enters Edit with a
\* document (startup arguments, GetFile, creation, Password) leaves that path
\* and that credential stored, and no step in Edit changes them.
C26_SaveTargetsOpenedFile ==
    [][/\ (pc = "TryFrom" /\ mode' = "Edit")
          => /\ path' = args.file
             /\ password' = IF args.hasPassword THEN args.password ELSE NoPw
       /\ \A f \in Paths :
             (GetFileEnter(f) /\ mode' = "Edit") => (path' = f /\ password' = NoPw)
       /\ (pc = "NewPassword" /\ mode' = "Edit")
          => (path' = filename /\ password' = form.og)
       /\ (PasswordEnter /\ mode' = "Edit") => (path' = path /\ password' = ta)
       /\ (pc = "Loop" /\ mode \in ContentModes /\ pc' # "Failed")
          => (path' = path /\ password' = password)]_vars

\* every entry of e is in f with the buffer it had
Kept(e, f) == \A x \in DOMAIN e : x \in DOMAIN f /\ f[x] = e[x]

\* C27: confirming SetDate with the chosen date c moves to Edit with c the
\* selected date and an entry for c present, a new empty one if c had none
\* and the existing buffer untouched if it had one, and changes no other
\* entry.
C27_ConfirmedDateAdopted ==
    [][SetDateEnter
          => /\ mode' = "Edit" /\ pc' = "Loop"
             /\ date' = uis.date
             /\ DOMAIN entries' = DOMAIN entries \cup {uis.date}
             /\ uis.date \notin DOMAIN entries => entries'[uis.date] = EmptyTextArea
             /\ Kept(entries, entries')]_vars

\* C27 happens: a date that already had text was confirmed in SetDate
C27_ConfirmedWrittenDate ==
    /\ pc = "Loop" /\ mode = "Edit" /\ step = Step("set_date_ui", "Some")
    /\ date \in DOMAIN entries /\ entries[date] # EmptyTextArea

\* SetDate or Delete is cancelled or declined by this step
ModalCancelled ==
    /\ pc = "Loop"
    /\ \/ mode = "SetDate" /\ step' = Step("set_date_ui", "None")
       \/ mode = "Delete" /\ step' = Step("delete", "n")

\* SetDate or Delete is entered from Edit, or stays open, by this step
ModalOpen ==
    /\ pc = "Loop" /\ pc' = "Loop"
    /\ \/ mode = "Edit" /\ mode' \in {"SetDate", "Delete"}
       \/ mode \in {"SetDate", "Delete"} /\ mode' = mode

\* C28: cancelling SetDate entered from Edit, and declining or cancelling
\* Delete, return to Edit with the selected date, the entry keys, every
\* entry's content and the unsaved flag as they were when the modal state was
\* entered: no step from the entry to the cancel changes them.
C28_CancelChangesNothing ==
    [][/\ ModalCancelled => (mode' = "Edit" /\ pc' = "Loop")
       /\ (ModalCancelled \/ ModalOpen)
             => (date' = date /\ entries' = entries /\ saved' = saved)]_vars

\* C28 happens: SetDate was cancelled while there were unsaved changes
C28_CancelledWhileUnsaved ==
    /\ pc = "Loop" /\ mode = "Edit" /\ step = Step("set_date_ui", "None")
    /\ ~saved /\ entries[date] # EmptyTextArea

\* C29: accepting Delete removes the entry of the selected date before the
\* forced SetDate sub-flow starts; when the flow returns to Edit the previous
\* content of that date is gone (the date is absent, or holds a fresh empty
\* entry if it was selected again) and every other entry is unchanged; and
\* no step other than an accepted Delete takes an entry out of the entries.
C29_OnlyDeleteRemoves ==
    [][/\ (pc = "Loop" /\ mode = "Delete" /\ step' = Step("delete", "y"))
          => (pc' = "DeleteSetDate" /\ entries' = Remove(entries, date))
       /\ (pc = "DeleteSetDate" /\ pc' = "DeleteSetDate") => entries' = entries
       /\ (pc = "DeleteSetDate" /\ pc' = "Loop")
          => /\ mode' = "Edit"
             /\ DOMAIN entries' = DOMAIN entries \cup {date'}
             /\ date' \notin DOMAIN entries => entries'[date'] = EmptyTextArea
             /\ Kept(entries, entries')
       /\ (pc' # "Failed" /\ ~(DOMAIN entries \subseteq DOMAIN entries'))
          => step' = Step("delete", "y")]_vars

\* a load or a save has succeeded and the entries are no longer what it left
Differs == doc.held /\ entries # doc.entries

\* C31: in every state after Edit was first entered, if the entries (their
\* key set or the content of any entry) differ from the document last
\* successfully loaded or saved, the unsaved flag is true (saved is false);
\* also after an accepted Delete and after SetDate inserted a new entry.
C31_DifferenceIsUnsaved ==
    (pc \in {"Loop", "DeleteSetDate"} /\ mode \in ContentModes /\ Differs) => ~saved

-----------------------------------------------------------------------------
(* Properties of pre_exit (SpecPreExit).                                   *)

\* C30: in AskToSave, if the unsaved flag is false the session moves to Exit
\* without prompting; if it is true, accepting the quit moves to Exit and
\* declining or cancelling moves to Edit with every entry's content, the
\* selected date and the unsaved flag unchanged.
C30_AskToSave ==
    [][(pc = "Loop" /\ mode = "AskToSave")
          => /\ saved => (mode' = "Exit" /\ step' = Step("pre_exit", "saved"))
             /\ (~saved /\ step' = Step("pre_exit", "y")) => mode' = "Exit"
             /\ (~saved /\ step' = Step("pre_exit", "n"))
                   => /\ mode' = "Edit"
                      /\ entries' = entries /\ date' = date /\ saved' = saved
             /\ ~saved => step' \in {Step("pre_exit", "y"), Step("pre_exit", "n")}]_vars

\* C30 happens: the quit was declined and the session is back in Edit with
\* its unsaved text
C30_DeclinedQuit ==
    /\ pc = "Loop" /\ mode = "Edit" /\ step = Step("pre_exit", "n")
    /\ ~saved /\ entries[date] # EmptyTextArea

-----------------------------------------------------------------------------
(* Properties of the DiaryStore boundary (SpecStore).                      *)

\* the last call was a read_jrnl of the file the last successful write_to
\* left in place
LoadedWritten == st.last.op = "load" /\ st.wrote.valid

\* C7: saving a document under a non-empty credential and loading the path
\* with the same credential returns a document equal to the one saved.
C7_RoundTrip ==
    (LoadedWritten /\ st.wrote.pw # NoPw /\ st.last.pw = st.wrote.pw)
        => st.last.res = Ok(st.doc)

\* C7 happens: a document with an entry in the year 10000 was saved and
\* loaded with the credential it was saved under
C7_LoadedOwnDocument ==
    /\ LoadedWritten /\ st.wrote.pw # NoPw /\ st.last.pw = st.wrote.pw
    /\ D3 \in DOMAIN st.doc /\ D1 \in DOMAIN st.doc
    /\ st.doc[D1] # <<>>

\* C8: loading a container saved under one credential with a different
\* credential returns WrongPassword, never a document.
C8_OtherCredentialRejected ==
    (LoadedWritten /\ st.last.pw # st.wrote.pw)
        => st.last.res = Err("WrongPassword")

\* C8 happens: a saved container was loaded with another non-empty credential
C8_LoadedWithOtherCredential ==
    /\ LoadedWritten /\ st.last.pw # st.wrote.pw
    /\ st.last.pw # NoPw /\ st.wrote.pw # NoPw

\* the DiaryError the specification assigns to a load of file f with pw
ExpectedLoadError(f, pw) ==
    IF f.kind \in {"absent", "nodir"} THEN "NotFound"
    ELSE IF f.kind \in {"denied", "dir"} THEN "NotAccessible"
    ELSE IF f.kind \in {"empty", "truncated", "badmagic"} THEN "InvalidFormat"
    ELSE IF f.kind = "huge" THEN "OutOfRangeSize"
    ELSE IF f.kind = "corrupt" \/ f.key # pw THEN "WrongPassword"
    ELSE "InvalidFormat"

\* C9: a load that fails returns the one DiaryError of its cause: NotFound
\* for a path that does not exist, NotAccessible for any other I/O failure,
\* InvalidFormat for a zero-byte, truncated or unrecognized file,
\* OutOfRangeSize for a file above the cap, WrongPassword for a failed
\* decryption, InvalidFormat for a payload that does not parse.
C9_LoadClassification ==
    (st.last.op = "load" /\ ~st.last.res.ok)
        => /\ st.last.res.err \in DiaryError
           /\ st.last.res.err = ExpectedLoadError(fs[PathA], st.last.pw)

\* C9 happens: a load of a path that does not exist has failed
C9_LoadOfMissingPathFailed ==
    st.last.op = "load" /\ ~st.last.res.ok /\ fs[PathA].kind = "absent"

\* C11: check_format reports a file as unrecognized exactly when the
\* empty-credential load fails with an InvalidFormat of the header (a
\* zero-byte, truncated or unrecognized file), and as recognized for every
\* other outcome, WrongPassword included.
C11_ProbeRecognition ==
    st.last.op = "probe"
        => (st.last.recognized
                <=> fs[PathA].kind \notin {"empty", "truncated", "badmagic"})

\* the file at self.path is the container App::save writes for the entries
\* and the credential the session holds now
HoldsEntries == fs[path] = MkFile("cocoon", password, ToJson(DiaryFromEntries(entries)))

\* C12: a load of the path the entries were saved to, with the same
\* credential, yields for every entry a buffer with the same lines as at
\* save time, in every save and load cycle.
C12_BufferRoundTrip ==
    [][(HoldsEntries /\ step' = Step("try_load", "Ok")) => entries' = entries]_vars

\* C13: for every date, parsing the text format(d) succeeds and returns d.
C13_ParseOfFormat ==
    pc = "RoundTrip" => (step = Step("parse", "Ok") /\ date = uis.date)

\* C13 happens: a date whose year is written with a sign was formatted and
\* parsed back
C13_SignedYearRoundTrip ==
    pc = "RoundTrip" /\ (uis.date.y > 9999 \/ uis.date.y < 0)

\* two digits, '-', two digits, '-', four digits
StrictShape(s) ==
    /\ Len(s) = 10
    /\ \A i \in {1, 2, 4, 5, 7, 8, 9, 10} : IsDigit(s[i])
    /\ s[3] = "-" /\ s[6] = "-"

\* C14: parse accepts only texts of the exact shape DD-MM-YYYY.
C14_ParseIsStrict ==
    (pc = "Parsed" /\ step = Step("parse", "Ok")) => StrictShape(ta)

\* the field the picker has selected cannot move further from `dt` with key k
AtCalendarEdge(dt, sel, k) ==
    IF k = "+"
    THEN IF sel = "Date" THEN dt = MkDate(31, 12, MAX_YEAR)
         ELSE IF sel = "Month" THEN dt.y = MAX_YEAR /\ dt.m = 12
         ELSE dt.y = MAX_YEAR
    ELSE IF sel = "Date" THEN dt = MkDate(1, 1, MIN_YEAR)
         ELSE IF sel = "Month" THEN dt.y = MIN_YEAR /\ dt.m = 1
         ELSE dt.y = MIN_YEAR

\* C15: incrementing or decrementing the selected field of the picker
\* leaves the date unchanged when the shifted date is outside the calendar,
\* and otherwise gives a valid calendar date different from the one before.
C15_PickerArithmetic ==
    (pc = "Keyed" /\ step.res \in {"+", "-"})
        => /\ ValidDate(uis.date.d, uis.date.m, uis.date.y)
           /\ (uis.date = date) <=> AtCalendarEdge(date, uis.selection, step.res)

\* C15 happens: a field was incremented at the last date of the calendar
C15_IncrementAtLastDate ==
    pc = "Keyed" /\ step.res = "+" /\ date = MkDate(31, 12, MAX_YEAR)

\* C10: every I/O failure of a save is returned as NotAccessible.
C10_SaveFailureNotAccessible ==
    (st.last.op = "save" /\ ~st.last.res.ok) => st.last.res.err = "NotAccessible"

====
